---- MODULE Spec2Model ----
(***************************************************************************)
(* Model of atest/module_info.py: class ModuleInfo.                        *)
(*                                                                         *)
(* Representation of the Python values:                                    *)
(*  - a module-info dict is a record with one field per key the code       *)
(*    reads; a key that is absent from the dict holds the default the code *)
(*    passes to dict.get (path [], installed False, ...).  The embedded    *)
(*    name is read both as get(MODULE_NAME, '') and as get(MODULE_NAME),   *)
(*    so its absence is kept apart from '' as the value None.              *)
(*  - dict objects are shared by reference between name_to_module_info and *)
(*    path_to_module_info.  json.load makes one dict object per key, so a  *)
(*    reference to a dict is its key of name_to_module_info: a bucket of   *)
(*    path_to_module_info is a sequence of such keys.                      *)
(*  - a relative path is the sequence of its components, so that           *)
(*    os.path.join is concatenation.                                       *)
(*  - dict iteration order is the insertion order of the loaded JSON       *)
(*    document: the sequence `order`.                                      *)
(***************************************************************************)
EXTENDS Integers, Sequences, FiniteSets, TLC

VARIABLES
    raw,                  \* ghost: the mapping exactly as json.load returned it
    order,                \* iteration order of name_to_module_info.items()
    name_to_module_info,  \* self.name_to_module_info
    path_to_module_info,  \* self.path_to_module_info (buckets of references)
    pc,                   \* position of __init__: "loaded", then "ready"
    op,                   \* the last query called
    arg,                  \* its arguments
    ret                   \* its outcome: Return(v) or Raise(e)

vars == <<raw, order, name_to_module_info, path_to_module_info,
          pc, op, arg, ret>>

index == <<name_to_module_info, path_to_module_info>>

----------------------------------------------------------------------------
(* Bounds *)

\* Largest number of modules in the loaded module-info.json.
MaxModules == 2

----------------------------------------------------------------------------
(* Python values *)

\* Python None where a string is expected (a module name, a suite).
None == "None"

\* Python None where a module-info dict is expected.
NoneInfo == [none |-> TRUE]

Return(v) == [val |-> v]

Raise(e) == [exc |-> e]

Range(s) == {s[i] : i \in 1..Len(s)}

\* constants.MODULE_CONFIG
MODULE_CONFIG == <<"AndroidTest.xml">>

\* constants.MODULE_CLASS_ROBOLECTRIC, the class marker of a robolectric module
MODULE_CLASS_ROBOLECTRIC == "ROBOLECTRIC_TEST"

\* os.path.join of paths relative to root_dir
os_path_join(a, b) == a \o b

\* The files that exist under self.root_dir.
Files == { <<"a", "b">> \o MODULE_CONFIG }

\* os.path.isfile(os.path.join(self.root_dir, p))
os_path_isfile(p) == p \in Files

\* The dict {} : every key absent.
EmptyDict ==
    [module_name |-> None, path |-> <<>>, installed |-> FALSE,
     compatibility_suites |-> <<>>, test_config |-> <<>>,
     auto_test_config |-> <<>>, class |-> <<>>]

\* Truth value of a module-info dict: `if mod_info`.
Truthy(mod_info) == mod_info # NoneInfo /\ mod_info # EmptyDict

\* mod_info.get(constants.MODULE_NAME, '')
GetNameOrEmpty(mod_info) ==
    IF mod_info.module_name = None THEN "" ELSE mod_info.module_name

----------------------------------------------------------------------------
(* Inputs *)

AB == <<"a", "b">>

CDir == <<"c">>

Names == {"", "Foo", "FooTests_Robo"}

Paths == {AB, CDir}

Suites == {"cts"}

\* The attributes of a module other than its embedded name.
Shapes ==
    { [EmptyDict EXCEPT !.path = <<AB>>, !.installed = TRUE,
                        !.test_config = <<os_path_join(AB, MODULE_CONFIG)>>],
      [EmptyDict EXCEPT !.path = <<AB>>,
                        !.class = <<MODULE_CLASS_ROBOLECTRIC>>],
      [EmptyDict EXCEPT !.path = <<AB, CDir>>,
                        !.compatibility_suites = <<"cts">>,
                        !.class = <<"APPS">>],
      [EmptyDict EXCEPT !.installed = TRUE, !.auto_test_config = <<TRUE>>,
                        !.compatibility_suites = <<"cts">>],
      [EmptyDict EXCEPT !.path = <<CDir>>, !.installed = TRUE,
                        !.auto_test_config = <<FALSE>>,
                        !.test_config = <<os_path_join(CDir, MODULE_CONFIG)>>,
                        !.class = <<MODULE_CLASS_ROBOLECTRIC>>] }

\* The records module-info.json may hold under key k: the embedded name is
\* absent or is the name of the module; the entry under the key '' is a
\* variant of the module Foo.
RecordsFor(k) ==
    { [s EXCEPT !.module_name = n] :
        s \in Shapes, n \in {None, IF k = "" THEN "Foo" ELSE k} }

Perms(S) ==
    { s \in [1..Cardinality(S) -> S] : \A x \in S : \E i \in DOMAIN s : s[i] = x }

----------------------------------------------------------------------------
(* Index Builder *)

\* Mutant: the filter is dropped, every entry is indexed.
MatchesKey_always(mod_name, mod_info) == TRUE

\* Mutant: a missing embedded name defaults to the key, not to ''.
MatchesKey_missing(mod_name, mod_info) ==
    mod_info.module_name = None \/ mod_name = mod_info.module_name

\* The negation of `mod_name != mod_info.get(constants.MODULE_NAME, '')`.
MatchesKey(mod_name, mod_info) == mod_name = GetNameOrEmpty(mod_info)

\* Mutant: the bucket is replaced by a new one-element list.
AppendToBucket_overwrite(p2m, path, ref) ==
    [q \in DOMAIN p2m \cup {path} |-> IF q = path THEN <<ref>> ELSE p2m[q]]

\* `if path in path_to_module_info: ...append(mod_info) else: ... = [mod_info]`
AppendToBucket(p2m, path, ref) ==
    IF path \in DOMAIN p2m
    THEN [p2m EXCEPT ![path] = Append(@, ref)]
    ELSE [q \in DOMAIN p2m \cup {path} |->
              IF q = path THEN <<ref>> ELSE p2m[q]]

\* The body of `for path in mod_info.get(MODULE_PATH, [])`, from paths[i] on.
RECURSIVE AddPaths(_, _, _, _)
AddPaths(st, mod_name, paths, i) ==
    IF i > Len(paths) THEN st
    ELSE LET n2m == [st.n2m EXCEPT ![mod_name].module_name = mod_name]
             p2m == AppendToBucket(st.p2m, paths[i], mod_name)
         IN  AddPaths([n2m |-> n2m, p2m |-> p2m], mod_name, paths, i + 1)

\* The body of `for mod_name, mod_info in name_to_module_info.items()`,
\* from items[i] on.
RECURSIVE AddModules(_, _, _)
AddModules(st, items, i) ==
    IF i > Len(items) THEN st
    ELSE LET mod_name == items[i]
             mod_info == st.n2m[mod_name]
         IN  IF ~MatchesKey(mod_name, mod_info)
             THEN AddModules(st, items, i + 1)
             ELSE AddModules(AddPaths(st, mod_name, mod_info.path, 1),
                             items, i + 1)

\* ModuleInfo._get_path_to_module_info: the returned dict (p2m) and the
\* argument dict as the call leaves it (n2m).
_get_path_to_module_info(n2m, items) ==
    AddModules([n2m |-> n2m, p2m |-> <<>>], items, 1)

----------------------------------------------------------------------------
(* Lookup Surface *)

is_module(name) == name \in DOMAIN name_to_module_info

\* Mutant: `.get(mod_name, {})`.
get_module_info_default(mod_name) ==
    IF mod_name \in DOMAIN name_to_module_info
    THEN name_to_module_info[mod_name]
    ELSE EmptyDict

get_module_info(mod_name) ==
    IF mod_name \in DOMAIN name_to_module_info
    THEN name_to_module_info[mod_name]
    ELSE NoneInfo

get_paths(name) ==
    LET info == get_module_info(name)
    IN  IF Truthy(info) THEN info.path ELSE <<>>

get_module_names(rel_module_path) ==
    LET bucket == IF rel_module_path \in DOMAIN path_to_module_info
                  THEN path_to_module_info[rel_module_path]
                  ELSE <<>>
    IN  [i \in 1..Len(bucket) |-> name_to_module_info[bucket[i]].module_name]

is_suite_in_compatibility_suites(suite, mod_info) ==
    suite \in Range(mod_info.compatibility_suites)

----------------------------------------------------------------------------
(* Robolectric Resolver *)

\* test_finder_utils.is_robolectric_module
is_robolectric_module(mod_info) ==
    /\ Truthy(mod_info)
    /\ mod_info.class # <<>>
    /\ mod_info.class[1] = MODULE_CLASS_ROBOLECTRIC

\* The first element of mods, from mods[i] on, whose record is robolectric.
RECURSIVE FirstRobolectric(_, _)
FirstRobolectric(mods, i) ==
    IF i > Len(mods) THEN None
    ELSE IF is_robolectric_module(get_module_info(mods[i])) THEN mods[i]
    ELSE FirstRobolectric(mods, i + 1)

\* Mutant: the last path is consulted, `module_paths[-1]`.
get_robolectric_test_name_last(module_name) ==
    LET module_name_info == get_module_info(module_name)
    IN  IF ~Truthy(module_name_info) THEN None
        ELSE LET module_paths == module_name_info.path
             IN  IF module_paths # <<>>
                 THEN FirstRobolectric(
                          get_module_names(module_paths[Len(module_paths)]), 1)
                 ELSE None

get_robolectric_test_name(module_name) ==
    LET module_name_info == get_module_info(module_name)
    IN  IF ~Truthy(module_name_info) THEN None
        ELSE LET module_paths == module_name_info.path
             IN  IF module_paths # <<>>
                 THEN FirstRobolectric(get_module_names(module_paths[1]), 1)
                 ELSE None

\* Mutant: check 2, the sibling lookup, is left out.
is_robolectric_test_own_class(module_name) ==
    LET mod_info == get_module_info(module_name)
    IN  Truthy(mod_info) /\ is_robolectric_module(mod_info)

is_robolectric_test(module_name) ==
    LET mod_info == get_module_info(module_name)
    IN  IF Truthy(mod_info) /\ is_robolectric_module(mod_info) THEN TRUE
        ELSE IF get_robolectric_test_name(module_name) # None THEN TRUE
        ELSE FALSE

----------------------------------------------------------------------------
(* Testability Classifier *)

\* Truth value of the result (Python returns the empty list itself when
\* auto_test_config is absent or empty).
is_auto_gen_test_config(module_name) ==
    IF is_module(module_name)
    THEN LET auto_test_config == name_to_module_info[module_name].auto_test_config
         IN  auto_test_config # <<>> /\ auto_test_config[1]
    ELSE FALSE

has_test_config(mod_info) ==
    IF \E i \in 1..Len(mod_info.test_config) :
           os_path_isfile(mod_info.test_config[i])
    THEN TRUE
    ELSE IF \E i \in 1..Len(mod_info.path) :
                os_path_isfile(os_path_join(mod_info.path[i], MODULE_CONFIG))
    THEN TRUE
    ELSE is_auto_gen_test_config(mod_info.module_name)

\* Mutant: an installed module is testable without a test config.
is_testable_module_installed(mod_info) ==
    IF ~Truthy(mod_info) THEN FALSE
    ELSE IF mod_info.installed THEN TRUE
    ELSE IF is_robolectric_test(mod_info.module_name) THEN TRUE
    ELSE FALSE

\* Mutant: the robolectric route is left out.
is_testable_module_no_robolectric(mod_info) ==
    IF ~Truthy(mod_info) THEN FALSE
    ELSE IF mod_info.installed /\ has_test_config(mod_info) THEN TRUE
    ELSE FALSE

is_testable_module(mod_info) ==
    IF ~Truthy(mod_info) THEN FALSE
    ELSE IF mod_info.installed /\ has_test_config(mod_info) THEN TRUE
    ELSE IF is_robolectric_test(mod_info.module_name) THEN TRUE
    ELSE FALSE

\* Mutant: with a suite, testability is not asked for.
Selected_suite_only(suite, info) ==
    IF suite # None /\ suite # ""
    THEN is_suite_in_compatibility_suites(suite, info)
    ELSE is_testable_module(info)

\* Mutant: without a suite, testability is not asked for.
Selected_all(suite, info) ==
    IF suite # None /\ suite # ""
    THEN is_testable_module(info)
         /\ is_suite_in_compatibility_suites(suite, info)
    ELSE TRUE

\* The conditions under which the loop body of get_testable_modules reaches
\* one of its two `modules.add`.
Selected(suite, info) ==
    IF is_testable_module(info)
    THEN IF suite # None /\ suite # ""
         THEN is_suite_in_compatibility_suites(suite, info)
         ELSE TRUE
    ELSE FALSE

\* The body of `for _, info in self.name_to_module_info.items()`, from
\* items[i] on; modules is the set built so far.
RECURSIVE ScanTestable(_, _, _, _)
ScanTestable(modules, suite, items, i) ==
    IF i > Len(items) THEN modules
    ELSE LET info == name_to_module_info[items[i]]
         IN  IF Selected(suite, info)
             THEN ScanTestable(modules \cup {info.module_name},
                               suite, items, i + 1)
             ELSE ScanTestable(modules, suite, items, i + 1)

get_testable_modules(suite) == ScanTestable({}, suite, order, 1)

----------------------------------------------------------------------------
(* The program *)

\* After ModuleInfo.__init__ has loaded the file (lines 44-47).
Init ==
    /\ \E K \in SUBSET Names :
         /\ Cardinality(K) <= MaxModules
         /\ order \in Perms(K)
         /\ \E f \in [K -> UNION {RecordsFor(k) : k \in K}] :
              /\ \A k \in K : f[k] \in RecordsFor(k)
              /\ raw = f
    /\ name_to_module_info = raw
    /\ path_to_module_info = <<>>
    /\ pc = "loaded"
    /\ op = "none"
    /\ arg = <<>>
    /\ ret = Return(None)

\* ModuleInfo.__init__, lines 48-50.
Construct ==
    /\ pc = "loaded"
    /\ LET st == _get_path_to_module_info(name_to_module_info, order)
       IN  /\ name_to_module_info' = st.n2m
           /\ path_to_module_info' = st.p2m
    /\ pc' = "ready"
    /\ UNCHANGED <<raw, order, op, arg, ret>>

\* Names a caller may pass: keys of the index and unknown names.
NameArgs == Names

\* Dicts a caller may pass: the records of the index, {} and None.
InfoArgs ==
    {name_to_module_info[k] : k \in DOMAIN name_to_module_info}
        \cup {EmptyDict, NoneInfo}

\* What no query assigns.
Frame == <<raw, order, name_to_module_info, path_to_module_info, pc>>

Call_is_module ==
    \E name \in NameArgs :
        /\ pc = "ready"
        /\ op' = "is_module"
        /\ arg' = <<name>>
        /\ ret' = Return(is_module(name))
        /\ UNCHANGED Frame

Call_get_paths ==
    \E name \in NameArgs :
        /\ pc = "ready"
        /\ op' = "get_paths"
        /\ arg' = <<name>>
        /\ ret' = Return(get_paths(name))
        /\ UNCHANGED Frame

Call_get_module_names ==
    \E rel_module_path \in Paths :
        /\ pc = "ready"
        /\ op' = "get_module_names"
        /\ arg' = <<rel_module_path>>
        /\ ret' = Return(get_module_names(rel_module_path))
        /\ UNCHANGED Frame

Call_get_module_info ==
    \E mod_name \in NameArgs :
        /\ pc = "ready"
        /\ op' = "get_module_info"
        /\ arg' = <<mod_name>>
        /\ ret' = Return(get_module_info(mod_name))
        /\ UNCHANGED Frame

Call_is_suite_in_compatibility_suites ==
    \E suite \in Suites, mod_info \in InfoArgs :
        /\ pc = "ready"
        /\ op' = "is_suite_in_compatibility_suites"
        /\ arg' = <<suite, mod_info>>
        /\ ret' = IF mod_info = NoneInfo
                  THEN Raise("AttributeError")
                  ELSE Return(is_suite_in_compatibility_suites(suite, mod_info))
        /\ UNCHANGED Frame

Call_get_testable_modules ==
    \E suite \in Suites \cup {None} :
        /\ pc = "ready"
        /\ op' = "get_testable_modules"
        /\ arg' = <<suite>>
        /\ ret' = Return(get_testable_modules(suite))
        /\ UNCHANGED Frame

Call_is_testable_module ==
    \E mod_info \in InfoArgs :
        /\ pc = "ready"
        /\ op' = "is_testable_module"
        /\ arg' = <<mod_info>>
        /\ ret' = Return(is_testable_module(mod_info))
        /\ UNCHANGED Frame

Call_has_test_config ==
    \E mod_info \in InfoArgs :
        /\ pc = "ready"
        /\ op' = "has_test_config"
        /\ arg' = <<mod_info>>
        /\ ret' = IF mod_info = NoneInfo
                  THEN Raise("AttributeError")
                  ELSE Return(has_test_config(mod_info))
        /\ UNCHANGED Frame

Call_get_robolectric_test_name ==
    \E module_name \in NameArgs :
        /\ pc = "ready"
        /\ op' = "get_robolectric_test_name"
        /\ arg' = <<module_name>>
        /\ ret' = Return(get_robolectric_test_name(module_name))
        /\ UNCHANGED Frame

Call_is_robolectric_test ==
    \E module_name \in NameArgs :
        /\ pc = "ready"
        /\ op' = "is_robolectric_test"
        /\ arg' = <<module_name>>
        /\ ret' = Return(is_robolectric_test(module_name))
        /\ UNCHANGED Frame

Call_is_auto_gen_test_config ==
    \E module_name \in NameArgs :
        /\ pc = "ready"
        /\ op' = "is_auto_gen_test_config"
        /\ arg' = <<module_name>>
        /\ ret' = Return(is_auto_gen_test_config(module_name))
        /\ UNCHANGED Frame

Next ==
    \/ Construct
    \/ Call_is_module
    \/ Call_get_paths
    \/ Call_get_module_names
    \/ Call_get_module_info
    \/ Call_is_suite_in_compatibility_suites
    \/ Call_get_testable_modules
    \/ Call_is_testable_module
    \/ Call_has_test_config
    \/ Call_get_robolectric_test_name
    \/ Call_is_robolectric_test
    \/ Call_is_auto_gen_test_config

Spec == Init /\ [][Next]_vars

----------------------------------------------------------------------------
(* Properties *)

Keys == DOMAIN name_to_module_info

\* The key is referenced from some bucket of the path index.
Indexed(k) ==
    \E p \in DOMAIN path_to_module_info : k \in Range(path_to_module_info[p])

\* C1. Index consistency: after construction, every key n whose record has
\* embedded name n appears in get_module_names(p) for every path p of the
\* record.
C1_IndexConsistency ==
    pc = "ready" =>
        \A n \in Keys :
            name_to_module_info[n].module_name = n =>
                \A p \in Range(name_to_module_info[n].path) :
                    n \in Range(get_module_names(p))

\* A module with two paths shares one of them with another indexed module.
C1_Witness ==
    /\ pc = "ready"
    /\ \E n \in Keys :
         /\ name_to_module_info[n].module_name = n
         /\ Len(name_to_module_info[n].path) = 2
         /\ \E p \in Range(name_to_module_info[n].path) :
              /\ Len(get_module_names(p)) = 2
              /\ get_module_names(p)[1] # n

\* C2 as stated. Variant filtering: an entry of the loaded name index whose
\* embedded name differs from its key, a missing name included, is in no
\* bucket of the path index.
C2_Original ==
    pc = "ready" =>
        \A k \in DOMAIN raw : raw[k].module_name # k => ~Indexed(k)

\* C2 as amended. Variant filtering: an entry of the loaded name index whose
\* embedded name, read as '' when it is missing, differs from its key is in
\* no bucket of the path index.
C2_VariantFiltering ==
    pc = "ready" =>
        \A k \in DOMAIN raw :
            (IF raw[k].module_name = None THEN "" ELSE raw[k].module_name) # k
                => ~Indexed(k)

\* A variant entry with a path sits next to an indexed module at that path.
C2_Witness ==
    /\ pc = "ready"
    /\ \E k \in DOMAIN raw :
         /\ raw[k].module_name = "Foo"
         /\ k # "Foo"
         /\ raw[k].path # <<>>
         /\ raw[k].path[1] \in DOMAIN path_to_module_info

InNameIndex(record) == \E k \in Keys : name_to_module_info[k] = record

\* The class marker of the record is the robolectric one.
HasRobolectricClass(record) ==
    record.class # <<>> /\ record.class[1] = MODULE_CLASS_ROBOLECTRIC

\* C4 as stated. Robolectric fallback: every record of the name index that
\* is not installed and carries the robolectric class marker is testable.
C4_Original ==
    (/\ op = "is_testable_module"
     /\ InNameIndex(arg[1])
     /\ ~arg[1].installed
     /\ HasRobolectricClass(arg[1])) => ret = Return(TRUE)

\* C4 as amended. Robolectric fallback: every record of the name index that
\* is not installed, carries the robolectric class marker and is stored under
\* its embedded name is testable.
C4_RobolectricFallback ==
    (/\ op = "is_testable_module"
     /\ \E k \in Keys : name_to_module_info[k] = arg[1]
                        /\ arg[1].module_name = k
     /\ ~arg[1].installed
     /\ HasRobolectricClass(arg[1])) => ret = Return(TRUE)

\* A robolectric record stored under its embedded name was classified.
C4_Witness ==
    /\ op = "is_testable_module"
    /\ \E k \in Keys : name_to_module_info[k] = arg[1]
                       /\ arg[1].module_name = k
    /\ ~arg[1].installed
    /\ HasRobolectricClass(arg[1])
    /\ ret = Return(TRUE)

\* C5. Suite filter: the set get_testable_modules(s) returns is a subset of
\* the set get_testable_modules(None) returns.
C5_SuiteSubset ==
    op = "get_testable_modules" =>
        ret.val \subseteq get_testable_modules(None)

\* A suite left out a testable module and kept another.
C5_Witness ==
    /\ op = "get_testable_modules"
    /\ arg[1] = "cts"
    /\ ret.val # {}
    /\ ret.val # get_testable_modules(None)

\* C10 as stated. Every element get_testable_modules returns is a key of the
\* name index whose record is testable.
C10_Original ==
    op = "get_testable_modules" =>
        \A e \in ret.val :
            e \in Keys /\ is_testable_module(name_to_module_info[e])

\* C10 as amended. Every element get_testable_modules returns is the embedded
\* name (None when it is missing) of a testable record of the name index, in
\* the suite when one is given; it is a key of the name index with a testable
\* record whenever that record is stored under its embedded name.
C10_TestableNames ==
    op = "get_testable_modules" =>
        \A e \in ret.val :
            \E k \in Keys :
                LET record == name_to_module_info[k]
                IN  /\ record.module_name = e
                    /\ is_testable_module(record)
                    /\ arg[1] # None => arg[1] \in Range(record.compatibility_suites)
                    /\ record.module_name = k =>
                         e \in Keys /\ is_testable_module(name_to_module_info[e])

\* The scan returned the name of a testable variant entry next to the key of
\* a testable module stored under its own name.
C10_Witness ==
    /\ op = "get_testable_modules"
    /\ \E k \in Keys : /\ name_to_module_info[k].module_name # k
                       /\ is_testable_module(name_to_module_info[k])
    /\ \E k \in Keys : /\ name_to_module_info[k].module_name = k
                       /\ k \in ret.val

\* The name index of the scenario, as written: no record has an embedded
\* name.
ScenarioIndex ==
    [k \in {"Foo", "FooTests_Robo"} |->
        IF k = "Foo"
        THEN [EmptyDict EXCEPT !.path = <<AB>>, !.installed = TRUE,
                               !.test_config = <<<<"a", "b", "AndroidTest.xml">>>>]
        ELSE [EmptyDict EXCEPT !.path = <<AB>>,
                               !.class = <<"ROBOLECTRIC_TEST">>]]

\* The name index of the scenario with each record carrying its key as its
\* embedded name.
ScenarioNamedIndex ==
    [k \in DOMAIN ScenarioIndex |-> [ScenarioIndex[k] EXCEPT !.module_name = k]]

\* What the scenario expects of the system built from the name index n2m,
\* iterated in the order written.
ScenarioOutcome(n2m) ==
    (/\ pc = "ready"
     /\ raw = n2m
     /\ order = <<"Foo", "FooTests_Robo">>
     /\ <<"a", "b", "AndroidTest.xml">> \in Files) =>
        /\ (op = "get_module_names" /\ arg = <<AB>>)
              => ret = Return(<<"Foo", "FooTests_Robo">>)
        /\ (op = "is_testable_module" /\ arg = <<name_to_module_info["Foo"]>>)
              => ret = Return(TRUE)
        /\ (op = "is_robolectric_test" /\ arg = <<"Foo">>)
              => ret = Return(TRUE)
        /\ (op = "get_robolectric_test_name" /\ arg = <<"Foo">>)
              => ret = Return("FooTests_Robo")

\* C6 as stated. Scenario: built from exactly the name index written in the
\* scenario, get_module_names("a/b") is ["Foo", "FooTests_Robo"], Foo is
\* testable, Foo is a robolectric test and its robolectric test name is
\* "FooTests_Robo".
C6_Original == ScenarioOutcome(ScenarioIndex)

\* C6 as amended. Scenario: the same, built from the name index of the
\* scenario in which each record carries its key as its embedded name.
C6_Scenario == ScenarioOutcome(ScenarioNamedIndex)

\* The robolectric sibling of Foo was resolved in the amended scenario.
C6_Witness ==
    /\ pc = "ready"
    /\ raw = ScenarioNamedIndex
    /\ order = <<"Foo", "FooTests_Robo">>
    /\ op = "get_robolectric_test_name"
    /\ arg = <<"Foo">>
    /\ ret = Return("FooTests_Robo")

\* C7. Fail-soft lookups: for a name that is no key of the name index, a path
\* with no bucket and an absent record, every lookup returns its documented
\* empty value and does not raise.
C7_FailSoft ==
    /\ (op = "is_module" /\ arg[1] \notin Keys) => ret = Return(FALSE)
    /\ (op = "get_module_info" /\ arg[1] \notin Keys) => ret = Return(NoneInfo)
    /\ (op = "get_paths" /\ arg[1] \notin Keys) => ret = Return(<<>>)
    /\ (op = "get_module_names" /\ arg[1] \notin DOMAIN path_to_module_info)
          => ret = Return(<<>>)
    /\ (op = "get_robolectric_test_name" /\ arg[1] \notin Keys)
          => ret = Return(None)
    /\ (op = "is_robolectric_test" /\ arg[1] \notin Keys) => ret = Return(FALSE)
    /\ (op = "is_auto_gen_test_config" /\ arg[1] \notin Keys)
          => ret = Return(FALSE)
    /\ (op = "is_testable_module" /\ arg[1] = NoneInfo) => ret = Return(FALSE)

\* An unknown name was looked up in an index that holds other modules.
C7_Witness ==
    /\ op = "get_module_info"
    /\ arg[1] \notin Keys
    /\ Keys # {}
    /\ DOMAIN path_to_module_info # {}
    /\ ret = Return(NoneInfo)

\* C8. get_robolectric_test_name(name) is None when name is unknown or its
\* record has no paths; otherwise it is the first name of
\* get_module_names(first path) whose record is robolectric, None when there
\* is none; a robolectric module that shares only a later path is never
\* returned.
C8_FirstPathOnly ==
    op = "get_robolectric_test_name" =>
        LET name == arg[1]
        IN  IF name \notin Keys \/ name_to_module_info[name].path = <<>>
            THEN ret = Return(None)
            ELSE LET first == name_to_module_info[name].path[1]
                     names == get_module_names(first)
                     hits  == {i \in 1..Len(names) :
                                  /\ names[i] \in Keys
                                  /\ HasRobolectricClass(
                                         name_to_module_info[names[i]])}
                 IN  /\ hits = {} => ret = Return(None)
                     /\ hits # {} =>
                          ret = Return(names[CHOOSE i \in hits :
                                                 \A j \in hits : i <= j])
                     /\ ret # Return(None) =>
                          first \in Range(name_to_module_info[ret.val].path)

\* A module with two paths was resolved while an indexed robolectric module
\* shares only its second path.
C8_Witness ==
    /\ op = "get_robolectric_test_name"
    /\ arg[1] \in Keys
    /\ Len(name_to_module_info[arg[1]].path) = 2
    /\ \E s \in Keys :
         /\ HasRobolectricClass(name_to_module_info[s])
         /\ Indexed(s)
         /\ name_to_module_info[arg[1]].path[2]
                \in Range(name_to_module_info[s].path)
         /\ name_to_module_info[arg[1]].path[1]
                \notin Range(name_to_module_info[s].path)
    /\ ret = Return(None)

\* C9 as stated. Immutability: building the path index leaves the name index
\* as it was loaded, and no query changes the name index or the path index.
C9_Original ==
    [][/\ pc = "loaded" => name_to_module_info' = raw
       /\ pc = "ready" => UNCHANGED index]_vars

\* What building the path index leaves of the loaded record r under key k.
AfterBuild(k, r) ==
    IF k = "" /\ r.module_name = None /\ r.path # <<>>
    THEN [r EXCEPT !.module_name = ""]
    ELSE r

\* C9 as amended. Immutability: building the path index leaves every record
\* of the name index as it was loaded, except that a record stored under the
\* key '' without an embedded name and with at least one path gains the
\* embedded name ''; no query changes the name index or the path index.
C9_Immutability ==
    [][/\ pc = "loaded" =>
            name_to_module_info' = [k \in DOMAIN raw |-> AfterBuild(k, raw[k])]
       /\ pc = "ready" => UNCHANGED index]_vars

\* A query ran on an index built from a variant entry, an entry without an
\* embedded name and paths.
C9_Witness ==
    /\ pc = "ready"
    /\ op = "get_testable_modules"
    /\ \E k \in Keys : /\ raw[k].module_name \notin {k, None}
                       /\ raw[k].path # <<>>
    /\ \E k \in Keys : /\ raw[k].module_name = None
                       /\ raw[k].path # <<>>
    /\ name_to_module_info = raw

====
